---------------------------- MODULE Spec2Model ----------------------------
(***************************************************************************)
(* Model of gsuitedirsync_aegee: the members-sync and actives-sync         *)
(* subcommands of myaegee_sync.py together with the source adapters of     *)
(* aegee_directory.py.                                                     *)
(*                                                                         *)
(* Python strings are sequences of one-character strings, so that          *)
(* str.lower(), re.sub(), str.endswith(), the ordering used by sorted()    *)
(* and difflib.SequenceMatcher are computed character by character.        *)
(* Python's None is the model value None, which differs from every string. *)
(***************************************************************************)
EXTENDS Integers, Sequences, FiniteSets, TLC

None == <<"None">>

(***************************************************************************)
(* Strings                                                                 *)
(***************************************************************************)
UpperCase == <<"A","B","C","D","E","F","G","H","I","J","K","L","M","N","O","P","Q","R","S","T","U","V","W","X","Y","Z">>
LowerCase == <<"a","b","c","d","e","f","g","h","i","j","k","l","m","n","o","p","q","r","s","t","u","v","w","x","y","z">>

\* The characters of the model in code point order (the ASCII order of the
\* characters that occur: space - . @ A-Z a-z).
CodePoints == <<" ", "-", ".", "@">> \o UpperCase \o LowerCase

Ord(c) == CHOOSE i \in 1..Len(CodePoints) : CodePoints[i] = c

Str(s, t) == s \o t

\* str.lower(), one character: the table of the upper case letters
LowerOfUpper ==
    [A |-> "a", B |-> "b", C |-> "c", D |-> "d", E |-> "e", F |-> "f", G |-> "g",
     H |-> "h", I |-> "i", J |-> "j", K |-> "k", L |-> "l", M |-> "m", N |-> "n",
     O |-> "o", P |-> "p", Q |-> "q", R |-> "r", S |-> "s", T |-> "t", U |-> "u",
     V |-> "v", W |-> "w", X |-> "x", Y |-> "y", Z |-> "z"]

LowerChar(c) == IF c \in DOMAIN LowerOfUpper THEN LowerOfUpper[c] ELSE c

\* str.lower()
Lower(s) == [i \in 1..Len(s) |-> LowerChar(s[i])]

\* str.endswith(suffix)
EndsWith(s, suffix) ==
    /\ Len(suffix) <= Len(s)
    /\ SubSeq(s, Len(s) - Len(suffix) + 1, Len(s)) = suffix

\* Python's < on str: lexicographic by code point, a proper prefix first
RECURSIVE StrLess(_, _)
StrLess(s, t) ==
    IF t = <<>> THEN FALSE
    ELSE IF s = <<>> THEN TRUE
    ELSE IF Head(s) = Head(t) THEN StrLess(Tail(s), Tail(t))
    ELSE Ord(Head(s)) < Ord(Head(t))

AtGmail == <<"@","g","m","a","i","l",".","c","o","m">>
AtGooglemail == <<"@","g","o","o","g","l","e","m","a","i","l",".","c","o","m">>

\* re.sub('@gmail\.com$', '@googlemail.com', s): the pattern is anchored at the
\* end of the string, so at most the suffix is rewritten.
GmailToGooglemail(s) ==
    IF EndsWith(s, AtGmail)
    THEN SubSeq(s, 1, Len(s) - Len(AtGmail)) \o AtGooglemail
    ELSE s

(***************************************************************************)
(* difflib.SequenceMatcher(None, a, b).ratio(), for strings shorter than   *)
(* the 200 characters at which the autojunk heuristic starts.  Positions   *)
(* are 0-based as in difflib; a[i] there is a[i+1] here.                   *)
(***************************************************************************)

\* Length of the common run of a[i:ahi] and b[j:bhi] that starts at (i, j)
RECURSIVE RunLen(_, _, _, _, _, _)
RunLen(a, b, i, j, ahi, bhi) ==
    IF i < ahi /\ j < bhi /\ a[i + 1] = b[j + 1]
    THEN 1 + RunLen(a, b, i + 1, j + 1, ahi, bhi)
    ELSE 0

\* find_longest_match(alo, ahi, blo, bhi): the longest matching block, of
\* those the one that starts earliest in a, of those the one that starts
\* earliest in b; (alo, blo, 0) when nothing matches.
find_longest_match(a, b, alo, ahi, blo, bhi) ==
    LET cands == (alo..(ahi - 1)) \X (blo..(bhi - 1))
        size(p) == RunLen(a, b, p[1], p[2], ahi, bhi)
        found == {p \in cands : size(p) > 0}
    IN  IF found = {} THEN <<alo, blo, 0>>
        ELSE LET best == CHOOSE p \in found :
                            \A q \in found :
                                \/ size(q) < size(p)
                                \/ /\ size(q) = size(p)
                                   /\ \/ p[1] < q[1]
                                      \/ p[1] = q[1] /\ p[2] <= q[2]
             IN  <<best[1], best[2], size(best)>>

\* sum of the sizes of get_matching_blocks() within a[alo:ahi], b[blo:bhi]:
\* the longest block, then the same to its left and to its right
RECURSIVE matches(_, _, _, _, _, _)
matches(a, b, alo, ahi, blo, bhi) ==
    IF alo >= ahi \/ blo >= bhi THEN 0
    ELSE LET m == find_longest_match(a, b, alo, ahi, blo, bhi)
         IN  IF m[3] = 0 THEN 0
             ELSE matches(a, b, alo, m[1], blo, m[2]) + m[3]
                  + matches(a, b, m[1] + m[3], ahi, m[2] + m[3], bhi)

\* ratio() is 2.0 * matches / (len(a) + len(b)), and 1.0 for two empty
\* strings; kept as the pair <<numerator, denominator>>.
ratio(a, b) ==
    IF Len(a) + Len(b) = 0 THEN <<1, 1>>
    ELSE <<2 * matches(a, b, 0, Len(a), 0, Len(b)), Len(a) + Len(b)>>

\* ratio() >= 0.9
RatioAtLeast(r) == 10 * r[1] >= 9 * r[2]

\* ratio() > 0.9
RatioAbove(r) == 10 * r[1] > 9 * r[2]


(***************************************************************************)
(* Module constants of myaegee_sync.py                                     *)
(***************************************************************************)
AtDomain == <<"@","a","e","g","e","e","-","m","u","e","n","c","h","e","n",".","d","e">>

EXTRA_EXCLUDED == {
    Str(<<"a","d","m","i","n">>, AtDomain),
    Str(<<"a","r","c","h","i","v","e">>, AtDomain),
    Str(<<"e","v","e","n","t","s">>, AtDomain),
    Str(<<"e","u","r","o","p","e","a","n",".","a","f","f","a","i","r","s">>, AtDomain),
    Str(<<"e","x","t","e","r","n","a","l","r","e","l","a","t","i","o","n","s">>, AtDomain),
    Str(<<"i","n","f","o">>, AtDomain),
    Str(<<"i","n","t","e","r","n","a","l","r","e","l","a","t","i","o","n","s">>, AtDomain),
    Str(<<"i","t">>, AtDomain),
    Str(<<"p","u","b","l","i","c","r","e","l","a","t","i","o","n","s">>, AtDomain),
    Str(<<"p","r","e","s","i","d","e","n","t">>, AtDomain),
    Str(<<"p","r","o","j","e","c","t","m","a","n","a","g","e","r">>, AtDomain),
    Str(<<"s","e","c","r","e","t","a","r","y">>, AtDomain),
    Str(<<"s","u">>, AtDomain),
    Str(<<"t","r","e","a","s","u","r","e","r">>, AtDomain) }

(***************************************************************************)
(* Records of the two sources                                              *)
(***************************************************************************)
\* MyAEGEEMember, with the fields of MyAEGEEUser that the reports read
MyAEGEEMember(email, first_name, last_name) ==
    [kind |-> "MyAEGEEMember",
     user |-> [email |-> email, first_name |-> first_name, last_name |-> last_name]]

\* A member of a group as members().list() returns it
GSuiteMember(id, email) ==
    [kind |-> "admin#directory#member", id |-> id, email |-> email]

\* A user as users().list() returns it; the first address is the primary one
GSuiteUser(id, fullName, addresses) ==
    [kind |-> "admin#directory#user", id |-> id,
     primaryEmail |-> addresses[1],
     name |-> [fullName |-> fullName],
     emails |-> [i \in 1..Len(addresses) |-> [address |-> addresses[i]]]]

\* "a@x.de", "A@X.de", "b@x.de"
Email_a == <<"a","@","x",".","d","e">>
Email_A == <<"A","@","X",".","d","e">>
Email_b == <<"b","@","x",".","d","e">>
\* "c@gmail.com", "c@googlemail.com", "d@gmail.com", "d@googlemail.com"
Email_c_gmail == <<"c">> \o AtGmail
Email_c_googlemail == <<"c">> \o AtGooglemail
Email_d_gmail == <<"d">> \o AtGmail
Email_d_googlemail == <<"d">> \o AtGooglemail
\* "it@aegee-muenchen.de" (in EXTRA_EXCLUDED), "j.smith@aegee-muenchen.de"
Email_it == Str(<<"i","t">>, AtDomain)
Email_jsmith == Str(<<"j",".","s","m","i","t","h">>, AtDomain)

\* The roster: Ann Lee, Bo Ng, Jon Smith, John Smyth, and a member whose
\* email is None
AnnLee == MyAEGEEMember(Email_a, <<"A","n","n">>, <<"L","e","e">>)
BoNg == MyAEGEEMember(Email_b, <<"B","o">>, <<"N","g">>)
JonSmith == MyAEGEEMember(Email_c_gmail, <<"J","o","n">>, <<"S","m","i","t","h">>)
JohnSmyth == MyAEGEEMember(Email_d_googlemail, <<"J","o","h","n">>, <<"S","m","y","t","h">>)
EvaNoe == MyAEGEEMember(None, <<"E","v","a">>, <<"N","o","e">>)

RosterPool == {AnnLee, BoNg, JonSmith, JohnSmyth, EvaNoe}

\* members@aegee-muenchen.de
Member_a == GSuiteMember(11, Email_a)
Member_A == GSuiteMember(12, Email_A)
Member_c_googlemail == GSuiteMember(13, Email_c_googlemail)
Member_d_gmail == GSuiteMember(14, Email_d_gmail)
Member_it == GSuiteMember(15, Email_it)

MembersGroupPool == {Member_a, Member_A, Member_c_googlemail, Member_d_gmail, Member_it}

\* The directory: "Anna Lee-Berg" <A@X.de>, "John Smith" <j.smith@...>,
\* "Carla Meyer" <c@googlemail.com>, "IT Team" <it@..., b@x.de>
User_AnnaLeeBerg ==
    GSuiteUser(1, <<"A","n","n","a"," ","L","e","e","-","B","e","r","g">>, <<Email_A>>)
User_JohnSmith ==
    GSuiteUser(2, <<"J","o","h","n"," ","S","m","i","t","h">>, <<Email_jsmith>>)
User_CarlaMeyer ==
    GSuiteUser(3, <<"C","a","r","l","a"," ","M","e","y","e","r">>, <<Email_c_googlemail>>)
User_ITTeam ==
    GSuiteUser(4, <<"I","T"," ","T","e","a","m">>, <<Email_it, Email_b>>)

DirectoryPool == {User_AnnaLeeBerg, User_JohnSmith, User_CarlaMeyer, User_ITTeam}

\* actives@aegee-muenchen.de: a directory user, and a member that is no
\* directory user
Active_1 == GSuiteMember(1, Email_A)
Active_7 == GSuiteMember(7, Email_b)

ActivesGroupPool == {Active_1, Active_7}

\* Longest roster, and longest group or directory listing, of the model
MaxRoster == 2
MaxRecords == 2

\* The lists without repetition of at most n elements of S
ListsUpTo(S, n) ==
    {s \in UNION {[1..k -> S] : k \in 0..n} :
        \A i, j \in 1..Len(s) : i # j => s[i] # s[j]}

Rosters == {s : s \in ListsUpTo(RosterPool, MaxRoster)}
MembersGroups == {s : s \in ListsUpTo(MembersGroupPool, MaxRecords)}
Directories == {s : s \in ListsUpTo(DirectoryPool, MaxRecords)}
ActivesGroups == {s : s \in ListsUpTo(ActivesGroupPool, MaxRecords)}

Range(s) == {s[i] : i \in 1..Len(s)}

(***************************************************************************)
(* State                                                                   *)
(***************************************************************************)
VARIABLES
    pc,                   \* the statement of main() that runs next
    args,                 \* the argparse.Namespace of parse_args
    stdout,               \* the lines printed so far
    exit_status,          \* the exit status of the process, None while it runs
    error,                \* the exception that ended the run, "none" if none
    myaegee_access_token, \* locals of members_sync / actives_sync
    myaegee_members,
    gsuite_creds,
    gsuite_users,
    gsuite_active_users,
    missing,
    extra,
    actives_missing,
    token_pickle,         \* the file token.pickle
    calls,                \* history: the adapter calls made by this run, in order
    api_failed,           \* history: the adapter calls of this run that failed
    auth_path,            \* history: the path gsuite_auth took in this run
    sources,              \* the collections a repeated run finds again
    prev_stdout           \* the lines printed by the previous run

locals == <<myaegee_access_token, myaegee_members, gsuite_creds, gsuite_users,
            gsuite_active_users, missing, extra, actives_missing>>
history == <<calls, api_failed, auth_path>>
vars == <<pc, args, stdout, exit_status, error, locals, token_pickle, history,
          sources, prev_stdout>>

\* google.oauth2.credentials.Credentials: valid is "has a token that is not
\* expired"
Credentials(token, expired, refresh_token) ==
    [token |-> token, expired |-> expired, refresh_token |-> refresh_token]

valid(creds) == creds.token # None /\ ~creds.expired

Token_cached == <<"t","0">>
Token_refreshed == <<"t","1">>
Token_fresh == <<"t","2">>
RefreshToken == <<"r","t">>

NoCredentials == Credentials(None, FALSE, None)

\* token.pickle before the first run: absent, or one of the credentials a
\* previous run pickled, as they are found later
TokenPickles ==
    {[exists |-> FALSE, creds |-> NoCredentials]} \cup
    {[exists |-> TRUE, creds |-> c] :
        c \in {Credentials(Token_cached, FALSE, RefreshToken),
               Credentials(Token_cached, TRUE, RefreshToken),
               Credentials(Token_cached, TRUE, None),
               Credentials(None, FALSE, RefreshToken)}}

NoArgs == [myaegee_user |-> None, myaegee_pass |-> None, func |-> "none"]

NoSources == [pinned |-> FALSE, args |-> NoArgs, members |-> <<>>, users |-> <<>>, actives |-> <<>>]

Init ==
    /\ pc = "parse_args"
    /\ args = NoArgs
    /\ stdout = <<>>
    /\ exit_status = None
    /\ error = "none"
    /\ myaegee_access_token = None
    /\ myaegee_members = <<>>
    /\ gsuite_creds = NoCredentials
    /\ gsuite_users = <<>>
    /\ gsuite_active_users = <<>>
    /\ missing = <<>>
    /\ extra = <<>>
    /\ actives_missing = <<>>
    /\ token_pickle \in TokenPickles
    /\ calls = <<>>
    /\ api_failed = {}
    /\ auth_path = "none"
    /\ sources = NoSources
    /\ prev_stdout = <<>>

(***************************************************************************)
(* Process exit                                                            *)
(***************************************************************************)
\* sys.exit(code): None is success, an int is the status, anything else is
\* printed and the status is 1
SystemExit(code) ==
    IF code = None THEN 0
    ELSE IF code \in Int THEN code
    ELSE 1

\* An exception no one catches: traceback on stderr, status 1
Raise(exception) ==
    /\ pc' = "exit"
    /\ exit_status' = 1
    /\ error' = exception

Continue(next) ==
    /\ pc' = next
    /\ UNCHANGED <<exit_status, error>>

(***************************************************************************)
(* parse_args                                                              *)
(***************************************************************************)
\* A string option is absent (None), empty, or a non-empty string
OptionValues == {None, <<>>, <<"u">>}
Subcommands == {"none", "members_sync", "actives_sync"}

\* add_argument(..., default=os.environ.get(...)): the flag if given, else the
\* environment variable, else None
Option(flag, env) == IF flag # None THEN flag ELSE env

\* The responses of a source: any of them, and for the invocation that
\* repeats a complete one the response the source gave before
PinnedOr(resps, same) == IF sources.pinned THEN resps \cap same ELSE resps

\* Python's "not s" for a str or None
Not(s) == s = None \/ s = <<>>

\* ArgumentParser.print_usage() writes the usage line and returns None
print_usage == [line |-> [text |-> "usage"], returns |-> None]

\* "if not args.myaegee_user or not args.myaegee_pass"
CredentialsAbsent(a) == Not(a.myaegee_user) \/ Not(a.myaegee_pass)

\* The status parse_args exits with when the credentials are absent:
\* exit(parser.print_usage())
UsageExitStatus == SystemExit(print_usage.returns)

parse_args ==
    /\ pc = "parse_args"
    /\ \E flag_user, env_user, flag_pass, env_pass \in OptionValues, sub \in Subcommands :
        LET parsed == [myaegee_user |-> Option(flag_user, env_user),
                       myaegee_pass |-> Option(flag_pass, env_pass),
                       func |-> sub]
        IN  /\ sources.pinned => parsed = sources.args
            /\ IF sub = "none"
               THEN \* add_subparsers(required=True): parser.error(), usage on
                    \* stderr, status 2
                    /\ pc' = "exit"
                    /\ exit_status' = 2
                    /\ error' = "SystemExit"
                    /\ UNCHANGED <<args, stdout>>
               ELSE IF CredentialsAbsent(parsed)
               THEN /\ pc' = "exit"
                    /\ exit_status' = UsageExitStatus
                    /\ error' = "SystemExit"
                    /\ args' = parsed
                    /\ stdout' = Append(stdout, print_usage.line)
               ELSE /\ Continue("myaegee_login")
                    /\ args' = parsed
                    /\ UNCHANGED stdout
    /\ UNCHANGED <<locals, token_pickle, history, sources, prev_stdout>>

(***************************************************************************)
(* aegee_directory.py: the source adapters                                 *)
(***************************************************************************)
AccessToken == <<"j","w","t">>

\* The JSON of POST /login; a key the response does not carry reads None
LoginResponses ==
    {[success |-> TRUE, access_token |-> AccessToken, message |-> None],
     [success |-> FALSE, access_token |-> None, message |-> <<"n","o">>]}

\* "if not login['success']: raise Exception(...)"
login_raises(login) == ~login.success

\* The JSON of GET /bodies/{id}/members
MembersResponses ==
    {[success |-> TRUE, data |-> r, message |-> None] : r \in Rosters} \cup
    {[success |-> FALSE, data |-> <<>>, message |-> <<"n","o">>]}

\* "if not members['success']: raise Exception(...)"
get_members_raises(members) == ~members.success

\* service.members().list(...).execute() and service.users().list(...)
\* .execute(): the listing, or an HttpError
Listings(lists) ==
    {[raised |-> FALSE, results |-> l] : l \in lists} \cup
    {[raised |-> TRUE, results |-> <<>>]}

Called(name, failed) ==
    /\ calls' = Append(calls, name)
    /\ api_failed' = IF failed THEN api_failed \cup {name} ELSE api_failed

\* myaegee_login(args.myaegee_user, args.myaegee_pass)
myaegee_login ==
    /\ pc = "myaegee_login"
    /\ \E login \in PinnedOr(LoginResponses, {r \in LoginResponses : r.success}) :
        /\ Called("myaegee_login", ~login.success)
        /\ IF login_raises(login)
           THEN Raise("Exception") /\ UNCHANGED myaegee_access_token
           ELSE Continue("myaegee_get_members")
                /\ myaegee_access_token' = login.access_token
    /\ UNCHANGED <<args, stdout, myaegee_members, gsuite_creds, gsuite_users,
                   gsuite_active_users, missing, extra, actives_missing,
                   token_pickle, auth_path, sources, prev_stdout>>

\* myaegee_get_members(args.myaegee_body_id, myaegee_access_token)
myaegee_get_members ==
    /\ pc = "myaegee_get_members"
    /\ \E members \in PinnedOr(MembersResponses,
                               {r \in MembersResponses :
                                    r.success /\ r.data = sources.members}) :
        /\ Called("myaegee_get_members", ~members.success)
        /\ IF get_members_raises(members)
           THEN Raise("Exception") /\ UNCHANGED myaegee_members
           ELSE Continue("gsuite_auth")
                /\ myaegee_members' = members.data
    /\ UNCHANGED <<args, stdout, myaegee_access_token, gsuite_creds, gsuite_users,
                   gsuite_active_users, missing, extra, actives_missing,
                   token_pickle, auth_path, sources, prev_stdout>>

\* creds.refresh(Request()): a new access token, or a RefreshError
refresh(creds) == Credentials(Token_refreshed, FALSE, creds.refresh_token)

\* flow.run_local_server(port=0): the credentials of a fresh login
run_local_server == Credentials(Token_fresh, FALSE, RefreshToken)

\* The refresh attempted for any credential that has a refresh token
can_refresh_unexpired(found, creds) == found /\ creds.refresh_token # None

\* "if creds and creds.expired and creds.refresh_token"
can_refresh(found, creds) == found /\ creds.expired /\ creds.refresh_token # None

\* "if not creds or not creds.valid"
needs_login(found, creds) == ~found \/ ~valid(creds)

\* The refreshed credential returned but not pickled: pickle.dump under the
\* else branch of the login
gsuite_auth_refresh_not_saved ==
    /\ pc = "gsuite_auth"
    /\ LET found == token_pickle.exists
           creds == IF found THEN token_pickle.creds ELSE NoCredentials
           after == IF args.func = "members_sync" THEN "gsuite_load_group"
                    ELSE "gsuite_load_directory"
       IN  IF needs_login(found, creds)
           THEN \E ok \in BOOLEAN :
                LET new == IF can_refresh(found, creds) THEN refresh(creds)
                           ELSE run_local_server
                IN  /\ auth_path' = IF can_refresh(found, creds) THEN "refresh"
                                    ELSE "login"
                    /\ Called("gsuite_auth", ~ok)
                    /\ IF ok
                       THEN /\ Continue(after)
                            /\ gsuite_creds' = new
                            /\ token_pickle' = IF can_refresh(found, creds)
                                               THEN token_pickle
                                               ELSE [exists |-> TRUE, creds |-> new]
                       ELSE /\ Raise(IF can_refresh(found, creds) THEN "RefreshError"
                                     ELSE "CredentialError")
                            /\ UNCHANGED <<gsuite_creds, token_pickle>>
           ELSE /\ auth_path' = "cached"
                /\ Called("gsuite_auth", FALSE)
                /\ Continue(after)
                /\ gsuite_creds' = creds
                /\ UNCHANGED token_pickle
    /\ UNCHANGED <<args, stdout, myaegee_access_token, myaegee_members, gsuite_users,
                   gsuite_active_users, missing, extra, actives_missing,
                   sources, prev_stdout>>

\* gsuite_auth(args.gsuite_credfile)
gsuite_auth ==
    /\ pc = "gsuite_auth"
    /\ LET found == token_pickle.exists
           creds == IF found THEN token_pickle.creds ELSE NoCredentials
           after == IF args.func = "members_sync" THEN "gsuite_load_group"
                    ELSE "gsuite_load_directory"
       IN  IF needs_login(found, creds)
           THEN \E ok \in BOOLEAN :
                LET new == IF can_refresh(found, creds) THEN refresh(creds)
                           ELSE run_local_server
                IN  /\ auth_path' = IF can_refresh(found, creds) THEN "refresh"
                                    ELSE "login"
                    /\ Called("gsuite_auth", ~ok)
                    /\ IF ok
                       THEN /\ Continue(after)
                            /\ gsuite_creds' = new
                            /\ token_pickle' = [exists |-> TRUE, creds |-> new]
                       ELSE /\ Raise(IF can_refresh(found, creds) THEN "RefreshError"
                                     ELSE "CredentialError")
                            /\ UNCHANGED <<gsuite_creds, token_pickle>>
           ELSE /\ auth_path' = "cached"
                /\ Called("gsuite_auth", FALSE)
                /\ Continue(after)
                /\ gsuite_creds' = creds
                /\ UNCHANGED token_pickle
    /\ UNCHANGED <<args, stdout, myaegee_access_token, myaegee_members, gsuite_users,
                   gsuite_active_users, missing, extra, actives_missing,
                   sources, prev_stdout>>

\* The HttpError swallowed: results.get(..., []) of an empty result
load_never_raises(listing) == FALSE

\* "raise HttpError" of execute()
load_raises(listing) == listing.raised

\* members_sync: gsuite_load_group(gsuite_creds, AEGEE_MUENCHEN_MEMBERS_GROUP)
members_sync_load_group ==
    /\ pc = "gsuite_load_group"
    /\ \E listing \in PinnedOr(Listings(MembersGroups),
                               {r \in Listings(MembersGroups) :
                                    ~r.raised /\ r.results = sources.users}) :
        /\ Called("gsuite_load_group", listing.raised)
        /\ IF load_raises(listing)
           THEN Raise("HttpError") /\ UNCHANGED gsuite_users
           ELSE Continue("members_sync_missing")
                /\ gsuite_users' = listing.results
    /\ UNCHANGED <<args, stdout, myaegee_access_token, myaegee_members, gsuite_creds,
                   gsuite_active_users, missing, extra, actives_missing,
                   token_pickle, auth_path, sources, prev_stdout>>

\* actives_sync: gsuite_load_directory(gsuite_creds)
actives_sync_load_directory ==
    /\ pc = "gsuite_load_directory"
    /\ \E listing \in PinnedOr(Listings(Directories),
                               {r \in Listings(Directories) :
                                    ~r.raised /\ r.results = sources.users}) :
        /\ Called("gsuite_load_directory", listing.raised)
        /\ IF load_raises(listing)
           THEN Raise("HttpError") /\ UNCHANGED gsuite_users
           ELSE Continue("gsuite_load_actives")
                /\ gsuite_users' = listing.results
    /\ UNCHANGED <<args, stdout, myaegee_access_token, myaegee_members, gsuite_creds,
                   gsuite_active_users, missing, extra, actives_missing,
                   token_pickle, auth_path, sources, prev_stdout>>

\* actives_sync: gsuite_load_group(gsuite_creds, AEGEE_MUENCHEN_ACTIVES_GROUP)
actives_sync_load_group ==
    /\ pc = "gsuite_load_actives"
    /\ \E listing \in PinnedOr(Listings(ActivesGroups),
                               {r \in Listings(ActivesGroups) :
                                    ~r.raised /\ r.results = sources.actives}) :
        /\ Called("gsuite_load_group", listing.raised)
        /\ IF load_raises(listing)
           THEN Raise("HttpError") /\ UNCHANGED gsuite_active_users
           ELSE Continue("actives_sync_missing")
                /\ gsuite_active_users' = listing.results
    /\ UNCHANGED <<args, stdout, myaegee_access_token, myaegee_members, gsuite_creds,
                   gsuite_users, missing, extra, actives_missing,
                   token_pickle, auth_path, sources, prev_stdout>>

(***************************************************************************)
(* print_users                                                             *)
(***************************************************************************)
member_key(m) == m.user.email
user_key(u) == u.primaryEmail
group_member_key(u) == u.email

\* The key=lambda of the branch print_users takes for a list of this kind
key(kind, u) ==
    IF kind = "MyAEGEEMember" THEN member_key(u)
    ELSE IF kind = "admin#directory#user" THEN user_key(u)
    ELSE group_member_key(u)

\* sorted(users, key=...): the stable sort by Python's < on the keys
sorted(users, kind) ==
    LET n == Len(users)
        before(j, i) == \/ StrLess(key(kind, users[j]), key(kind, users[i]))
                        \/ key(kind, users[j]) = key(kind, users[i]) /\ j < i
        rank(i) == 1 + Cardinality({j \in 1..n : before(j, i)})
    IN  [p \in 1..n |-> users[CHOOSE i \in 1..n : rank(i) = p]]

\* sorted() compares keys with <, which raises TypeError as soon as a None
\* is compared; a list of fewer than two elements is never compared
sorted_raises(users, kind) ==
    Len(users) >= 2 /\ \E i \in 1..Len(users) : key(kind, users[i]) = None

\* f'* {m.user.first_name} {m.user.last_name} ({m.user.email})'
member_line(m) ==
    [text |-> "member", first_name |-> m.user.first_name,
     last_name |-> m.user.last_name, email |-> m.user.email]

\* f"* {u['name']['fullName']} ({', '.join(<addresses of the domain>)})"
user_line(u) ==
    [text |-> "user", fullName |-> u.name.fullName,
     emails |-> SelectSeq([i \in 1..Len(u.emails) |-> u.emails[i].address],
                          LAMBDA e : EndsWith(e, AtDomain))]

\* f"* {m['email']}"
group_member_line(u) == [text |-> "group_member", email |-> u.email]

\* The line printed for one record of a list of this kind
line(kind, u) ==
    IF kind = "MyAEGEEMember" THEN member_line(u)
    ELSE IF kind = "admin#directory#user" THEN user_line(u)
    ELSE group_member_line(u)

\* '\n'.join(map(..., sorted_users))
Lines(users, kind) == [i \in 1..Len(users) |-> line(kind, users[i])]

\* print_users(users): the lines printed, or the TypeError of sorted()
print_users(users) ==
    IF Len(users) = 0 THEN [raised |-> FALSE, lines |-> <<>>]
    ELSE LET kind == users[1].kind
         IN  IF sorted_raises(users, kind)
             THEN [raised |-> TRUE, lines |-> <<>>]
             ELSE [raised |-> FALSE, lines |-> Lines(sorted(users, kind), kind)]

\* The number of unmatched records printed as the number matched
matched_is_unmatched(total, unmatched) == unmatched

\* The count off by one whenever gsuite_auth rewrote token.pickle
matched_after_rewrite(total, unmatched) ==
    IF auth_path = "cached" THEN total - unmatched ELSE total - unmatched - 1

\* print(f'... (matched {total - len(unmatched)}/{total} ...):')
matched(total, unmatched) == total - unmatched

Summary(text, total, unmatched) ==
    [text |-> text, matched |-> matched(total, unmatched), total |-> total]

Blank == [text |-> ""]

(***************************************************************************)
(* members_sync                                                            *)
(***************************************************************************)
\* str.lower() of None raises AttributeError: some comparison of a member with
\* a group record is made with a None email
lower_raises(members, users) ==
    \E i \in 1..Len(members), j \in 1..Len(users) :
        members[i].user.email = None \/ users[j].email = None

\* The rewrite applied to the group side as well
is_in_group_both_sides(member, users) ==
    \E j \in 1..Len(users) :
        \/ Lower(member.user.email) = Lower(users[j].email)
        \/ GmailToGooglemail(Lower(member.user.email))
              = GmailToGooglemail(Lower(users[j].email))

\* The lower-cased comparison without the rewrite
is_in_group_exact_only(member, users) ==
    \E j \in 1..Len(users) : Lower(member.user.email) = Lower(users[j].email)

\* is_in_group of the missing pass
is_in_group(member, users) ==
    \E j \in 1..Len(users) :
        \/ Lower(member.user.email) = Lower(users[j].email)
        \/ GmailToGooglemail(Lower(member.user.email)) = Lower(users[j].email)

\* The exclusion compared with the primary domain's role address only
member_excluded_admin_only(user) == user.email = Str(<<"a","d","m","i","n">>, AtDomain)

\* "if user['email'] not in EXTRA_EXCLUDED"
member_excluded(user) == user.email \in EXTRA_EXCLUDED

\* The rewrite applied to the group record instead of the member
is_in_myaegee_group_side(user, members) ==
    \E i \in 1..Len(members) :
        \/ Lower(members[i].user.email) = Lower(user.email)
        \/ Lower(members[i].user.email) = GmailToGooglemail(Lower(user.email))

\* is_in_myaegee of the extra pass
is_in_myaegee(user, members) ==
    \E i \in 1..Len(members) :
        \/ Lower(members[i].user.email) = Lower(user.email)
        \/ GmailToGooglemail(Lower(members[i].user.email)) = Lower(user.email)

\* The members appended to missing
members_sync_missing_list(members, users) ==
    SelectSeq(members, LAMBDA m : ~is_in_group(m, users))

\* The exclusion list forgotten
members_sync_extra_list_no_exclusion(members, users) ==
    SelectSeq(users, LAMBDA u : ~is_in_myaegee(u, members))

\* The group records appended to extra
members_sync_extra_list(members, users) ==
    SelectSeq(users, LAMBDA u : ~member_excluded(u) /\ ~is_in_myaegee(u, members))

\* Find users from MyAEGEE missing from the G-Suite group
members_sync_missing ==
    /\ pc = "members_sync_missing"
    /\ IF lower_raises(myaegee_members, gsuite_users)
       THEN Raise("AttributeError") /\ UNCHANGED <<missing, stdout>>
       ELSE LET list == members_sync_missing_list(myaegee_members, gsuite_users)
                printed == print_users(list)
            IN  /\ missing' = list
                /\ IF Len(list) > 0
                   THEN IF printed.raised
                        THEN /\ Raise("TypeError")
                             /\ stdout' = Append(stdout,
                                    Summary("Members missing from group",
                                            Len(myaegee_members), Len(list)))
                        ELSE /\ Continue("members_sync_extra")
                             /\ stdout' = stdout
                                    \o <<Summary("Members missing from group",
                                                 Len(myaegee_members), Len(list))>>
                                    \o printed.lines \o <<Blank>>
                   ELSE /\ Continue("members_sync_extra")
                        /\ stdout' = stdout
                               \o <<[text |-> "All MyAEGEE users included in group"], Blank>>
    /\ UNCHANGED <<args, myaegee_access_token, myaegee_members, gsuite_creds,
                   gsuite_users, gsuite_active_users, extra, actives_missing,
                   token_pickle, history, sources, prev_stdout>>

\* Find extra users in the G-Suite group which are not in MyAEGEE
members_sync_extra ==
    /\ pc = "members_sync_extra"
    /\ IF lower_raises(myaegee_members,
                       SelectSeq(gsuite_users, LAMBDA u : ~member_excluded(u)))
       THEN Raise("AttributeError") /\ UNCHANGED <<extra, stdout>>
       ELSE LET list == members_sync_extra_list(myaegee_members, gsuite_users)
                printed == print_users(list)
            IN  /\ extra' = list
                /\ IF Len(list) > 0
                   THEN IF printed.raised
                        THEN /\ Raise("TypeError")
                             /\ stdout' = Append(stdout,
                                    Summary("Extra users in group",
                                            Len(gsuite_users), Len(list)))
                        ELSE /\ pc' = "exit" /\ exit_status' = 0 /\ UNCHANGED error
                             /\ stdout' = stdout
                                    \o <<Summary("Extra users in group",
                                                 Len(gsuite_users), Len(list))>>
                                    \o printed.lines \o <<Blank>>
                   ELSE /\ pc' = "exit" /\ exit_status' = 0 /\ UNCHANGED error
                        /\ stdout' = stdout
                               \o <<[text |-> "No extra users in group"], Blank>>
    /\ UNCHANGED <<args, myaegee_access_token, myaegee_members, gsuite_creds,
                   gsuite_users, gsuite_active_users, missing, actives_missing,
                   token_pickle, history, sources, prev_stdout>>

(***************************************************************************)
(* actives_sync                                                            *)
(***************************************************************************)
\* f'{member.user.first_name} {member.user.last_name}'
member_name(member) == member.user.first_name \o <<" ">> \o member.user.last_name

\* email_match of the missing pass
email_match(member, users) ==
    \E j \in 1..Len(users) :
        \E k \in 1..Len(users[j].emails) :
            member.user.email = users[j].emails[k].address

\* SequenceMatcher(None, name, fullName).ratio() of every roster name and
\* directory name of the model, computed once
Ratios ==
    {<<member_name(m), u.name.fullName, ratio(member_name(m), u.name.fullName)>> :
        m \in RosterPool, u \in DirectoryPool}

name_ratio(name, fullName) ==
    IF \E t \in Ratios : t[1] = name /\ t[2] = fullName
    THEN (CHOOSE t \in Ratios : t[1] = name /\ t[2] = fullName)[3]
    ELSE ratio(name, fullName)

\* "SequenceMatcher(None, ..., ...).ratio() > 0.9" of the missing pass
name_match(member, users) ==
    \E j \in 1..Len(users) :
        RatioAbove(name_ratio(member_name(member), users[j].name.fullName))

\* user_emails
user_emails(user) == {user.emails[k].address : k \in 1..Len(user.emails)}

\* "any([email in EXTRA_EXCLUDED for email in user_emails])"
user_excluded(user) == \E email \in user_emails(user) : email \in EXTRA_EXCLUDED

\* email_match of the extra pass
user_email_match(user, members) ==
    \E i \in 1..Len(members) : members[i].user.email \in user_emails(user)

\* name_match of the extra pass
user_name_match(user, members) ==
    \E i \in 1..Len(members) :
        RatioAbove(name_ratio(member_name(members[i]), user.name.fullName))

\* The members appended to missing
actives_sync_missing_list(members, users) ==
    SelectSeq(members, LAMBDA m : ~email_match(m, users) /\ ~name_match(m, users))

\* The users appended to extra
actives_sync_extra_list(members, users) ==
    SelectSeq(users, LAMBDA u : /\ ~user_excluded(u)
                                /\ ~user_email_match(u, members)
                                /\ ~user_name_match(u, members))

\* Membership decided by email address instead of id
is_active_by_email(user, active_users) ==
    \E j \in 1..Len(active_users) : active_users[j].email \in user_emails(user)

\* "any([active_user['id'] == user['id'] for active_user in gsuite_active_users])"
is_active(user, active_users) ==
    \E j \in 1..Len(active_users) : active_users[j].id = user.id

\* The users appended to actives_missing
actives_sync_actives_list(users, active_users) ==
    SelectSeq(users, LAMBDA u : ~is_active(u, active_users))

\* Match users from MyAEGEE and G-Suite
actives_sync_missing ==
    /\ pc = "actives_sync_missing"
    /\ LET list == actives_sync_missing_list(myaegee_members, gsuite_users)
           printed == print_users(list)
           summary == Summary("Members without G-Suite account",
                              Len(myaegee_members), Len(list))
       IN  /\ missing' = list
           /\ IF printed.raised
              THEN /\ Raise("TypeError")
                   /\ stdout' = Append(stdout, summary)
              ELSE /\ Continue("actives_sync_extra")
                   /\ stdout' = stdout \o <<summary>> \o printed.lines \o <<Blank>>
    /\ UNCHANGED <<args, myaegee_access_token, myaegee_members, gsuite_creds,
                   gsuite_users, gsuite_active_users, extra, actives_missing,
                   token_pickle, history, sources, prev_stdout>>

\* Find extra users with G-Suite account which are not in MyAEGEE
actives_sync_extra ==
    /\ pc = "actives_sync_extra"
    /\ LET list == actives_sync_extra_list(myaegee_members, gsuite_users)
           printed == print_users(list)
       IN  /\ extra' = list
           /\ stdout' = stdout
                \o (IF Len(list) > 0
                    THEN <<Summary("Extra users in G-Suite", Len(gsuite_users), Len(list))>>
                         \o printed.lines
                    ELSE <<[text |-> "No extra users in G-Suite"]>>)
                \o <<Blank>>
           /\ Continue("actives_sync_actives")
    /\ UNCHANGED <<args, myaegee_access_token, myaegee_members, gsuite_creds,
                   gsuite_users, gsuite_active_users, missing, actives_missing,
                   token_pickle, history, sources, prev_stdout>>

\* Find G-Suite users that are not in the actives group
actives_sync_actives ==
    /\ pc = "actives_sync_actives"
    /\ LET list == actives_sync_actives_list(gsuite_users, gsuite_active_users)
           printed == print_users(list)
       IN  /\ actives_missing' = list
           /\ stdout' = stdout
                \o (IF Len(list) > 0
                    THEN <<Summary("G-Suite members not included in actives group",
                                   Len(gsuite_users), Len(list))>>
                         \o printed.lines
                    ELSE <<[text |-> "All G-Suite users included in actives group"]>>)
                \o <<Blank>>
           /\ pc' = "exit" /\ exit_status' = 0 /\ UNCHANGED error
    /\ UNCHANGED <<args, myaegee_access_token, myaegee_members, gsuite_creds,
                   gsuite_users, gsuite_active_users, missing, extra,
                   token_pickle, history, sources, prev_stdout>>

(***************************************************************************)
(* The next invocation                                                     *)
(***************************************************************************)
\* The run fetched every collection its subcommand reads
FetchedAll ==
    /\ api_failed = {}
    /\ Len(calls) = IF args.func = "members_sync" THEN 4 ELSE 5

\* The process has ended after fetching everything; the tool is invoked once
\* more with the same command line while both sources still answer with the
\* same collections.  Nothing of the process survives but token.pickle.
run_again ==
    /\ pc = "exit"
    /\ ~sources.pinned
    /\ args.func # "none"
    /\ FetchedAll
    /\ sources' = [pinned |-> TRUE, args |-> args, members |-> myaegee_members,
                   users |-> gsuite_users, actives |-> gsuite_active_users]
    /\ prev_stdout' = stdout
    /\ pc' = "parse_args"
    /\ args' = NoArgs
    /\ stdout' = <<>>
    /\ exit_status' = None
    /\ error' = "none"
    /\ myaegee_access_token' = None
    /\ myaegee_members' = <<>>
    /\ gsuite_creds' = NoCredentials
    /\ gsuite_users' = <<>>
    /\ gsuite_active_users' = <<>>
    /\ missing' = <<>>
    /\ extra' = <<>>
    /\ actives_missing' = <<>>
    /\ calls' = <<>>
    /\ api_failed' = {}
    /\ auth_path' = "none"
    /\ UNCHANGED token_pickle

\* Between two invocations the cached access token may expire
token_expires ==
    /\ pc = "parse_args"
    /\ sources.pinned
    /\ token_pickle.exists
    /\ ~token_pickle.creds.expired
    /\ token_pickle' = [token_pickle EXCEPT !.creds.expired = TRUE]
    /\ UNCHANGED <<pc, args, stdout, exit_status, error, locals, history,
                   sources, prev_stdout>>

Next ==
    \/ parse_args
    \/ myaegee_login
    \/ myaegee_get_members
    \/ gsuite_auth
    \/ members_sync_load_group
    \/ actives_sync_load_directory
    \/ actives_sync_load_group
    \/ members_sync_missing
    \/ members_sync_extra
    \/ actives_sync_missing
    \/ actives_sync_extra
    \/ actives_sync_actives

\* One invocation
Spec == Init /\ [][Next]_vars

NextAgain ==
    \/ Next
    \/ run_again
    \/ token_expires

\* An invocation, and its repetition
SpecAgain == Init /\ [][NextAgain]_vars

(***************************************************************************)
(* The scripts at the repository root: sync_members_group.py and           *)
(* myaegee_sync.py members-sync                                            *)
(***************************************************************************)
\* EXTRA_EXCLUDED of sync_members_group.py
sync_members_group_EXTRA_EXCLUDED == {
    Str(<<"a","d","m","i","n">>, AtDomain),
    Str(<<"e","v","e","n","t","s">>, AtDomain),
    Str(<<"e","x","t","e","r","n","a","l","r","e","l","a","t","i","o","n","s">>, AtDomain),
    Str(<<"i","n","t","e","r","n","a","l","r","e","l","a","t","i","o","n","s">>, AtDomain),
    Str(<<"i","t">>, AtDomain),
    Str(<<"p","r","e","s","i","d","e","n","t">>, AtDomain),
    Str(<<"s","e","c","r","e","t","a","r","y">>, AtDomain),
    Str(<<"t","r","e","a","s","u","r","e","r">>, AtDomain) }

\* EXTRA_EXCLUDED of the root myaegee_sync.py
root_EXTRA_EXCLUDED ==
    sync_members_group_EXTRA_EXCLUDED \cup
    {Str(<<"a","r","c","h","i","v","e">>, AtDomain), Str(<<"i","n","f","o">>, AtDomain)}

\* sync_members_group.py: --username and --password are plain options, and
\* nothing checks that they were given
sync_members_group_parse_args ==
    /\ pc = "parse_args"
    /\ ~sources.pinned
    /\ \E username, password \in OptionValues :
        args' = [myaegee_user |-> username, myaegee_pass |-> password,
                 func |-> "sync_members_group"]
    /\ Continue("scripts_fetch")
    /\ UNCHANGED <<stdout, locals, token_pickle, history, sources, prev_stdout>>

\* myaegee_sync.py members-sync at the repository root: parse_args
root_parse_args ==
    /\ pc = "parse_args"
    /\ ~sources.pinned
    /\ \E flag_user, env_user, flag_pass, env_pass \in OptionValues :
        LET parsed == [myaegee_user |-> Option(flag_user, env_user),
                       myaegee_pass |-> Option(flag_pass, env_pass),
                       func |-> "root_members_sync"]
        IN  /\ args' = parsed
            /\ IF CredentialsAbsent(parsed)
               THEN /\ pc' = "exit"
                    /\ exit_status' = UsageExitStatus
                    /\ error' = "SystemExit"
                    /\ stdout' = Append(stdout, print_usage.line)
               ELSE /\ Continue("scripts_fetch")
                    /\ UNCHANGED stdout
    /\ UNCHANGED <<locals, token_pickle, history, sources, prev_stdout>>

\* MyAEGEE answers a login without username or password with success: false
login_accepted(a, login) == login.success => ~CredentialsAbsent(a)

\* The calls of main() of sync_members_group.py, in order
scripts_calls ==
    <<"myaegee_login", "myaegee_get_members", "gsuite_auth", "gsuite_load_group">>

\* The four calls that open main() of sync_members_group.py and members_sync
\* of the root myaegee_sync.py: myaegee_login, myaegee_get_members,
\* gsuite_auth, gsuite_load_group; the first that raises ends the run
scripts_fetch ==
    /\ pc = "scripts_fetch"
    /\ \E login \in LoginResponses, members \in MembersResponses,
          ok \in BOOLEAN, listing \in Listings(MembersGroups) :
        LET found == token_pickle.exists
            creds == IF found THEN token_pickle.creds ELSE NoCredentials
            new == IF can_refresh(found, creds) THEN refresh(creds)
                   ELSE run_local_server
            path == IF ~needs_login(found, creds) THEN "cached"
                    ELSE IF can_refresh(found, creds) THEN "refresh" ELSE "login"
            auth_raises == needs_login(found, creds) /\ ~ok
            failed == IF login_raises(login) THEN 1
                      ELSE IF get_members_raises(members) THEN 2
                      ELSE IF auth_raises THEN 3
                      ELSE IF load_raises(listing) THEN 4 ELSE 0
            made == IF failed = 0 THEN 4 ELSE failed
        IN  /\ login_accepted(args, login)
            \* what follows the failing call is never asked for
            /\ failed = 1 => members.data = <<>> /\ ~members.success
            /\ failed \in {1, 2} => ok
            /\ failed \in {1, 2, 3} => listing.raised
            /\ needs_login(found, creds) \/ ok
            /\ calls' = SubSeq(scripts_calls, 1, made)
            /\ api_failed' = IF failed = 0 THEN {}
                             ELSE {scripts_calls[failed]}
            /\ myaegee_access_token' = IF failed = 1 THEN None ELSE login.access_token
            /\ myaegee_members' = IF failed \in {1, 2} THEN <<>> ELSE members.data
            /\ IF failed \in {0, 4}
               THEN /\ auth_path' = path
                    /\ gsuite_creds' = IF path = "cached" THEN creds ELSE new
                    /\ token_pickle' = IF path = "cached" THEN token_pickle
                                       ELSE [exists |-> TRUE, creds |-> new]
               ELSE /\ auth_path' = IF failed = 3 THEN path ELSE "none"
                    /\ UNCHANGED <<gsuite_creds, token_pickle>>
            /\ gsuite_users' = IF failed = 0 THEN listing.results ELSE <<>>
            /\ IF failed = 0 THEN Continue("scripts_missing")
               ELSE Raise(IF failed \in {1, 2} THEN "Exception"
                          ELSE IF failed = 4 THEN "HttpError"
                          ELSE IF path = "refresh" THEN "RefreshError"
                          ELSE "CredentialError")
    /\ UNCHANGED <<args, stdout, gsuite_active_users, missing, extra,
                   actives_missing, sources, prev_stdout>>

\* re.sub(pattern, repl, None) raises TypeError: some member without email
\* is compared with a record whose email is not None as well
sub_raises(members, users) ==
    \E i \in 1..Len(members), j \in 1..Len(users) :
        members[i].user.email = None /\ users[j].email # None

\* sync_members_group.py: is_in_group
sync_members_group_is_in_group(member, users) ==
    \E j \in 1..Len(users) :
        \/ member.user.email = users[j].email
        \/ GmailToGooglemail(member.user.email) = users[j].email

\* sync_members_group.py: is_in_myaegee
sync_members_group_is_in_myaegee(user, members) ==
    \E i \in 1..Len(members) :
        \/ members[i].user.email = user.email
        \/ GmailToGooglemail(members[i].user.email) = user.email

sync_members_group_missing_list(members, users) ==
    SelectSeq(members, LAMBDA m : ~sync_members_group_is_in_group(m, users))

sync_members_group_extra_list(members, users) ==
    SelectSeq(users, LAMBDA u : /\ u.email \notin sync_members_group_EXTRA_EXCLUDED
                                /\ ~sync_members_group_is_in_myaegee(u, members))

\* The root myaegee_sync.py: is_in_group of members_sync
root_is_in_group(member, users) ==
    \E j \in 1..Len(users) :
        \/ member.user.email = users[j].email
        \/ GmailToGooglemail(member.user.email) = users[j].email

\* The root myaegee_sync.py: is_in_myaegee of members_sync
root_is_in_myaegee(user, members) ==
    \E i \in 1..Len(members) :
        \/ members[i].user.email = user.email
        \/ GmailToGooglemail(members[i].user.email) = user.email

root_members_sync_missing_list(members, users) ==
    SelectSeq(members, LAMBDA m : ~root_is_in_group(m, users))

root_members_sync_extra_list(members, users) ==
    SelectSeq(users, LAMBDA u : /\ u.email \notin root_EXTRA_EXCLUDED
                                /\ ~root_is_in_myaegee(u, members))

\* print('\n'.join(map(lambda m: f'* ...', missing))): the list as it is
join_map(users) == Lines(users, IF Len(users) = 0 THEN "none" ELSE users[1].kind)

\* The missing report of both scripts, printed from the list they computed
scripts_print_missing(list, raises) ==
    IF raises
    THEN Raise("TypeError") /\ UNCHANGED <<missing, stdout>>
    ELSE /\ missing' = list
         /\ Continue("scripts_extra")
         /\ stdout' = stdout \o
              (IF Len(list) > 0
               THEN <<Summary("Members missing from group",
                              Len(myaegee_members), Len(list))>> \o join_map(list)
               ELSE <<[text |-> "All MyAEGEE users included in group"]>>)
              \o <<Blank>>

\* The extra report of both scripts; no blank line ends it
scripts_print_extra(list, raises) ==
    IF raises
    THEN Raise("TypeError") /\ UNCHANGED <<extra, stdout>>
    ELSE /\ extra' = list
         /\ pc' = "exit" /\ exit_status' = 0 /\ UNCHANGED error
         /\ stdout' = stdout \o
              (IF Len(list) > 0
               THEN <<Summary("Extra users in group",
                              Len(gsuite_users), Len(list))>> \o join_map(list)
               ELSE <<[text |-> "No extra users in group"]>>)

\* sync_members_group.py: find users from MyAEGEE missing from the group
sync_members_group_missing ==
    /\ pc = "scripts_missing"
    /\ args.func = "sync_members_group"
    /\ scripts_print_missing(
           sync_members_group_missing_list(myaegee_members, gsuite_users),
           sub_raises(myaegee_members, gsuite_users))
    /\ UNCHANGED <<args, myaegee_access_token, myaegee_members, gsuite_creds,
                   gsuite_users, gsuite_active_users, extra, actives_missing,
                   token_pickle, history, sources, prev_stdout>>

\* sync_members_group.py: find extra users in the group
sync_members_group_extra ==
    /\ pc = "scripts_extra"
    /\ args.func = "sync_members_group"
    /\ scripts_print_extra(
           sync_members_group_extra_list(myaegee_members, gsuite_users),
           sub_raises(myaegee_members,
                      SelectSeq(gsuite_users,
                          LAMBDA u : u.email \notin sync_members_group_EXTRA_EXCLUDED)))
    /\ UNCHANGED <<args, myaegee_access_token, myaegee_members, gsuite_creds,
                   gsuite_users, gsuite_active_users, missing, actives_missing,
                   token_pickle, history, sources, prev_stdout>>

\* The root myaegee_sync.py: the missing pass of members_sync
root_members_sync_missing ==
    /\ pc = "scripts_missing"
    /\ args.func = "root_members_sync"
    /\ scripts_print_missing(
           root_members_sync_missing_list(myaegee_members, gsuite_users),
           sub_raises(myaegee_members, gsuite_users))
    /\ UNCHANGED <<args, myaegee_access_token, myaegee_members, gsuite_creds,
                   gsuite_users, gsuite_active_users, extra, actives_missing,
                   token_pickle, history, sources, prev_stdout>>

\* The root myaegee_sync.py: the extra pass of members_sync
root_members_sync_extra ==
    /\ pc = "scripts_extra"
    /\ args.func = "root_members_sync"
    /\ scripts_print_extra(
           root_members_sync_extra_list(myaegee_members, gsuite_users),
           sub_raises(myaegee_members,
                      SelectSeq(gsuite_users,
                          LAMBDA u : u.email \notin root_EXTRA_EXCLUDED)))
    /\ UNCHANGED <<args, myaegee_access_token, myaegee_members, gsuite_creds,
                   gsuite_users, gsuite_active_users, missing, actives_missing,
                   token_pickle, history, sources, prev_stdout>>

NextScripts ==
    \/ sync_members_group_parse_args
    \/ root_parse_args
    \/ scripts_fetch
    \/ sync_members_group_missing
    \/ sync_members_group_extra
    \/ root_members_sync_missing
    \/ root_members_sync_extra

\* One invocation of a script of the repository root
SpecScripts == Init /\ [][NextScripts]_vars

(***************************************************************************)
(* Properties                                                              *)
(***************************************************************************)
MembersSync == args.func = "members_sync"
ActivesSync == args.func = "actives_sync"

\* The missing pass has run: missing holds its result
MissingReported ==
    \/ pc \in {"members_sync_extra", "actives_sync_extra", "actives_sync_actives"}
    \/ pc = "exit" /\ args.func # "none" /\ error \in {"none", "TypeError"}

\* The extra pass has run: extra holds its result
ExtraReported ==
    \/ pc = "actives_sync_actives"
    \/ pc = "exit" /\ args.func # "none" /\ error = "none"

\* The email addresses of a directory-side record
EmailsOf(d) == IF d.kind = "admin#directory#member" THEN {d.email} ELSE user_emails(d)

RosterMembers == Range(myaegee_members)
DirectoryRecords == Range(gsuite_users)

\* C1: a roster member whose email equals, case-insensitively, an email of
\* some directory record is never listed as unmatched, in the missing pass
\* of members_sync and in the missing pass of actives_sync.
C1_CaseInsensitiveEmailIsMatched ==
    MissingReported =>
        \A m \in RosterMembers :
            (/\ m.user.email # None
             /\ \E d \in DirectoryRecords :
                    \E e \in EmailsOf(d) : Lower(e) = Lower(m.user.email))
            => m \notin Range(missing)

\* C2: in the missing pass of members_sync a roster member u@gmail.com is
\* matched by a group record u@googlemail.com, and a roster member
\* u@googlemail.com is not matched by a group record u@gmail.com when no
\* group record carries the member's own email.
C2_AliasRosterSideOnly ==
    (MembersSync /\ MissingReported) =>
        \A m \in RosterMembers :
            LET email == m.user.email
                local(suffix) == SubSeq(email, 1, Len(email) - Len(suffix))
            IN  /\ (/\ email # None
                    /\ EndsWith(email, AtGmail)
                    /\ \E d \in DirectoryRecords : d.email = local(AtGmail) \o AtGooglemail)
                   => m \notin Range(missing)
                /\ (/\ email # None
                    /\ EndsWith(email, AtGooglemail)
                    /\ \E d \in DirectoryRecords : d.email = local(AtGooglemail) \o AtGmail
                    /\ ~\E d \in DirectoryRecords : Lower(d.email) = Lower(email))
                   => m \in Range(missing)

\* Both directions at once: c@gmail.com is matched by c@googlemail.com, and
\* d@googlemail.com is listed although d@gmail.com is in the group
C2_Witness ==
    /\ MembersSync /\ MissingReported
    /\ myaegee_members = <<JonSmith, JohnSmyth>>
    /\ gsuite_users = <<Member_c_googlemail, Member_d_gmail>>
    /\ missing = <<JohnSmyth>>

\* C3: in the missing pass of actives_sync a roster member c@gmail.com is
\* matched by a directory user one of whose emails is c@googlemail.com,
\* whatever the names.
C3_AliasEmailIsMatchedInActives ==
    (ActivesSync /\ MissingReported) =>
        \A m \in RosterMembers :
            (/\ m.user.email # None
             /\ EndsWith(m.user.email, AtGmail)
             /\ \E d \in DirectoryRecords :
                    GmailToGooglemail(m.user.email) \in user_emails(d))
            => m \notin Range(missing)

\* C4: in actives_sync a roster member none of whose directory users carries
\* its email is matched exactly when some directory user's fullName has a
\* ratio 2*M/T with the member's name such that 10*(2*M) > 9*T; "John Smyth"
\* against "John Smith" (18/20) is unmatched and "Jon Smith" against
\* "John Smith" (18/19) is matched.
C4_NameMatchedIffRatioAbove ==
    (ActivesSync /\ MissingReported) =>
        /\ \A m \in RosterMembers :
            (\A d \in DirectoryRecords : m.user.email \notin user_emails(d))
            => (m \notin Range(missing)
                <=> \E d \in DirectoryRecords :
                        LET r == name_ratio(member_name(m), d.name.fullName)
                        IN  10 * r[1] > 9 * r[2])
        /\ (JohnSmyth \in RosterMembers /\ gsuite_users = <<User_JohnSmith>>)
           => /\ name_ratio(member_name(JohnSmyth), User_JohnSmith.name.fullName) = <<18, 20>>
              /\ JohnSmyth \in Range(missing)
        /\ (JonSmith \in RosterMembers /\ User_JohnSmith \in DirectoryRecords)
           => /\ name_ratio(member_name(JonSmith), User_JohnSmith.name.fullName) = <<18, 19>>
              /\ JonSmith \notin Range(missing)

\* A ratio of exactly 0.9 beside a ratio above 0.9
C4_Witness ==
    /\ ActivesSync /\ MissingReported
    /\ myaegee_members = <<JonSmith, JohnSmyth>>
    /\ gsuite_users = <<User_JohnSmith>>
    /\ missing = <<JohnSmyth>>

\* The lines that print_users(extra) printed: those between the summary of
\* the extra report and the blank line that ends it
ExtraLines ==
    LET heads == {k \in 1..Len(stdout) :
                    stdout[k].text \in {"Extra users in group", "Extra users in G-Suite"}}
    IN  IF heads = {} THEN <<>>
        ELSE LET h == CHOOSE k \in heads : TRUE
                 ends == {k \in (h + 1)..Len(stdout) : stdout[k] = Blank}
                 e == CHOOSE k \in ends : \A j \in ends : k <= j
             IN  SubSeq(stdout, h + 1, e - 1)

\* C5: a group record whose email is in EXTRA_EXCLUDED (members_sync), and a
\* directory user one of whose emails is in EXTRA_EXCLUDED (actives_sync), is
\* never in extra nor printed by the extra report, whatever the roster.
C5_ExcludedNeverExtra ==
    ExtraReported =>
        /\ Len(ExtraLines) = Len(extra)
        /\ \A d \in DirectoryRecords :
            (\E e \in EmailsOf(d) : e \in EXTRA_EXCLUDED)
            => /\ d \notin Range(extra)
               /\ \A k \in 1..Len(ExtraLines) :
                    /\ MembersSync => ExtraLines[k].email # d.email
                    /\ ActivesSync => ExtraLines[k].fullName # d.name.fullName

\* An empty roster: every record of the group is extra but the excluded one
C5_Witness ==
    /\ MembersSync /\ ExtraReported
    /\ myaegee_members = <<>>
    /\ gsuite_users = <<Member_it, Member_a>>
    /\ extra = <<Member_a>>

\* C6: the missing report of members_sync lists exactly the roster members
\* that no group record matches by lower-cased email or by its
\* @gmail.com -> @googlemail.com rewrite; its summary is
\* (total - listed)/total; roster [a@x.de, b@x.de] against group [a@x.de]
\* lists b@x.de with summary 1/2.
C6_MissingFromGroupReport ==
    (MembersSync /\ MissingReported) =>
        LET unmatched == {m \in RosterMembers :
                            ~\E d \in DirectoryRecords :
                                \/ Lower(m.user.email) = Lower(d.email)
                                \/ GmailToGooglemail(Lower(m.user.email)) = Lower(d.email)}
            listed == {stdout[k].email : k \in {j \in 1..Len(stdout) : stdout[j].text = "member"}}
        IN  /\ Range(missing) = unmatched
            /\ Len(missing) = Cardinality(unmatched)
            /\ missing # <<>> =>
                 /\ stdout[1].text = "Members missing from group"
                 /\ stdout[1].total = Len(myaegee_members)
                 /\ stdout[1].matched = Len(myaegee_members) - Len(missing)
            /\ error = "none" => listed = {m.user.email : m \in unmatched}
            /\ (myaegee_members = <<AnnLee, BoNg>> /\ gsuite_users = <<Member_a>>)
               => /\ missing = <<BoNg>>
                  /\ stdout[1].matched = 1 /\ stdout[1].total = 2
                  /\ stdout[2] = member_line(BoNg)

\* The scenario of the claim
C6_Witness ==
    /\ MembersSync /\ MissingReported
    /\ myaegee_members = <<AnnLee, BoNg>>
    /\ gsuite_users = <<Member_a>>
    /\ missing = <<BoNg>>

\* C7: a record without email never makes a run raise: a run that fetched
\* both collections ends normally and lists the roster members without
\* email as unmatched.
C7_MalformedRecordNeverRaises ==
    (pc = "exit" /\ args.func # "none" /\ FetchedAll) =>
        /\ error = "none"
        /\ \A m \in RosterMembers : m.user.email = None => m \in Range(missing)

\* The lines of the reports (the usage message is no report)
ReportLines == SelectSeq(stdout, LAMBDA l : l.text # "usage")

\* The adapter calls of a subcommand, in order
AdapterCalls(func) ==
    IF func = "members_sync"
    THEN <<"myaegee_login", "myaegee_get_members", "gsuite_auth", "gsuite_load_group">>
    ELSE <<"myaegee_login", "myaegee_get_members", "gsuite_auth",
           "gsuite_load_directory", "gsuite_load_group">>

\* C8: a report line is printed only after every adapter call of the
\* subcommand has succeeded; a failed call is the last call of the run, which
\* ends there without a report line.
C8_FailFastNoPartialReport ==
    /\ ReportLines # <<>> => (api_failed = {} /\ calls = AdapterCalls(args.func))
    /\ api_failed # {} =>
         /\ pc = "exit"
         /\ error \in {"Exception", "RefreshError", "CredentialError", "HttpError"}
         /\ api_failed = {calls[Len(calls)]}
         /\ calls = SubSeq(AdapterCalls(args.func), 1, Len(calls))
         /\ ReportLines = <<>>

\* The last fetch of actives_sync fails after every other one succeeded
C8_Witness ==
    /\ ActivesSync
    /\ pc = "exit"
    /\ Len(calls) = 5
    /\ api_failed = {"gsuite_load_group"}
    /\ myaegee_members # <<>> /\ gsuite_users # <<>>
    /\ stdout = <<>>

\* C9: with the roster username or password absent parse_args prints the
\* usage and the process exits with a nonzero status before any login or
\* fetch.
C9_UsageExitIsNonzero ==
    (pc = "exit" /\ args.func # "none" /\ CredentialsAbsent(args)) =>
        /\ stdout = <<print_usage.line>>
        /\ calls = <<>>
        /\ exit_status # 0

\* C10: the invocation that repeats a complete one on the same collections
\* prints the same lines in the same order, whatever token.pickle held and
\* whether it was rewritten.
C10_SameReportsAgain ==
    (sources.pinned /\ pc = "exit" /\ FetchedAll) => stdout = prev_stdout

\* The repetition refreshed and rewrote token.pickle, the first run did not
C10_Witness ==
    /\ sources.pinned /\ pc = "exit" /\ FetchedAll
    /\ auth_path = "refresh"
    /\ error = "none"
    /\ missing # <<>> /\ extra # <<>>
    /\ Len(stdout) > 4

\* A line printed for a record of a list
RecordLine(l) == l.text \in {"member", "user", "group_member"}

\* The email a list is to be ordered by, of the record a line was printed
\* for: the email of a member and of a group record, the primary email of a
\* directory user
PrintedKey(l) ==
    IF l.text = "user"
    THEN (CHOOSE u \in DirectoryPool : u.name.fullName = l.fullName).primaryEmail
    ELSE l.email

\* The orders in which a source may return the records of a list
Orderings(s) == {t \in [1..Len(s) -> Range(s)] : Range(t) = Range(s)}

\* A missing report, and an extra report, has been printed in full
MissingPrinted == error = "none" /\ (MissingReported \/ pc = "scripts_extra")
ExtraPrinted == error = "none" /\ ExtraReported

\* The record lines a subcommand or script prints in its missing report
MissingLines(func, members, users) ==
    IF func = "members_sync"
    THEN print_users(members_sync_missing_list(members, users)).lines
    ELSE IF func = "actives_sync"
    THEN print_users(actives_sync_missing_list(members, users)).lines
    ELSE IF func = "root_members_sync"
    THEN join_map(root_members_sync_missing_list(members, users))
    ELSE join_map(sync_members_group_missing_list(members, users))

\* The record lines a subcommand or script prints in its extra report
ExtraLinesOf(func, members, users) ==
    IF func = "members_sync"
    THEN print_users(members_sync_extra_list(members, users)).lines
    ELSE IF func = "actives_sync"
    THEN print_users(actives_sync_extra_list(members, users)).lines
    ELSE IF func = "root_members_sync"
    THEN join_map(root_members_sync_extra_list(members, users))
    ELSE join_map(sync_members_group_extra_list(members, users))

\* C11: every list a report prints is in ascending order of email (of
\* primary email for directory users), and the list printed is the same for
\* every order in which a source returns the same records.
C11_PrintedListsAscending ==
    /\ \A k \in 1..(Len(stdout) - 1) :
        (/\ RecordLine(stdout[k]) /\ RecordLine(stdout[k + 1])
         /\ PrintedKey(stdout[k]) # None /\ PrintedKey(stdout[k + 1]) # None)
        => StrLess(PrintedKey(stdout[k]), PrintedKey(stdout[k + 1]))
    /\ MissingPrinted =>
         \A p \in Orderings(myaegee_members) :
            MissingLines(args.func, p, gsuite_users)
              = MissingLines(args.func, myaegee_members, gsuite_users)
    /\ ExtraPrinted =>
         \A q \in Orderings(gsuite_users) :
            ExtraLinesOf(args.func, myaegee_members, q)
              = ExtraLinesOf(args.func, myaegee_members, gsuite_users)

\* C12: gsuite_auth reads token.pickle and takes exactly one of three paths.
\* A valid cached credential is returned as it is and nothing is written; an
\* invalid one that is expired and has a refresh token is refreshed and
\* written back; in every other case (no file, or an invalid credential that
\* is not expired or has no refresh token) the credential of a fresh login
\* is written back.  token.pickle changes exactly when gsuite_auth returns
\* after a refresh or a login.
C12_AuthTakesOneOfThreePaths ==
    [][pc = "gsuite_auth" =>
        LET found == token_pickle.exists
            creds == token_pickle.creds
            isvalid == found /\ creds.token # None /\ ~creds.expired
            refreshable == /\ found /\ ~isvalid
                           /\ creds.expired /\ creds.refresh_token # None
            returned == pc' # "exit"
            written == token_pickle' # token_pickle
        IN  /\ Len(calls') = Len(calls) + 1
            /\ isvalid =>
                 /\ auth_path' = "cached" /\ returned
                 /\ gsuite_creds' = creds
                 /\ ~written
            /\ refreshable =>
                 /\ auth_path' = "refresh"
                 /\ returned =>
                      /\ gsuite_creds'.token = Token_refreshed
                      /\ gsuite_creds'.refresh_token = creds.refresh_token
                      /\ ~gsuite_creds'.expired
                      /\ token_pickle' = [exists |-> TRUE, creds |-> gsuite_creds']
            /\ (~isvalid /\ ~refreshable) =>
                 /\ auth_path' = "login"
                 /\ returned =>
                      /\ gsuite_creds'.token = Token_fresh
                      /\ ~gsuite_creds'.expired
                      /\ token_pickle' = [exists |-> TRUE, creds |-> gsuite_creds']
            /\ written <=> (returned /\ auth_path' \in {"refresh", "login"})
    ]_vars

\* gsuite_auth has returned a refreshed credential and written it back
C12_Witness ==
    /\ pc \in {"gsuite_load_group", "gsuite_load_directory"}
    /\ auth_path = "refresh"
    /\ gsuite_creds.token = Token_refreshed
    /\ token_pickle = [exists |-> TRUE, creds |-> gsuite_creds]

\* C13: the active-group report of actives_sync lists exactly the directory
\* users whose id is the id of no record of the actives group, whatever the
\* emails, the names, the roster and the exclusion list; its summary counts
\* the directory users minus those listed.
C13_ActivesReportByIdOnly ==
    (ActivesSync /\ pc = "exit" /\ error = "none") =>
        LET ids == {gsuite_active_users[j].id : j \in 1..Len(gsuite_active_users)}
            absent == {u \in DirectoryRecords : u.id \notin ids}
            n == Len(actives_missing)
            L == Len(stdout)
        IN  /\ Range(actives_missing) = absent
            /\ n = Cardinality(absent)
            /\ stdout[L] = Blank
            /\ IF n > 0
               THEN /\ stdout[L - n - 1].text
                         = "G-Suite members not included in actives group"
                    /\ stdout[L - n - 1].total = Len(gsuite_users)
                    /\ stdout[L - n - 1].matched = Len(gsuite_users) - n
                    /\ \A k \in (L - n)..(L - 1) : stdout[k].text = "user"
                    /\ {stdout[k].fullName : k \in (L - n)..(L - 1)}
                         = {u.name.fullName : u \in absent}
               ELSE stdout[L - 1].text = "All G-Suite users included in actives group"
            /\ (User_ITTeam \in DirectoryRecords /\ Active_7 \in Range(gsuite_active_users))
               => User_ITTeam \in Range(actives_missing)

\* "IT Team" has an excluded address and the address of a member of the
\* actives group, but not that member's id
C13_Witness ==
    /\ ActivesSync /\ pc = "exit" /\ error = "none"
    /\ gsuite_users = <<User_AnnaLeeBerg, User_ITTeam>>
    /\ gsuite_active_users = <<Active_1, Active_7>>
    /\ actives_missing = <<User_ITTeam>>

\* The pair of a roster member and a directory record that a subcommand
\* takes for the same person: in members_sync the lower-cased emails are
\* equal, directly or after the rewrite of the member's @gmail.com; in
\* actives_sync the member's email is an address of the user, or the ratio
\* of the member's name and the user's fullName is above 0.9
Related(m, d) ==
    IF MembersSync
    THEN \/ Lower(m.user.email) = Lower(d.email)
         \/ GmailToGooglemail(Lower(m.user.email)) = Lower(d.email)
    ELSE \/ m.user.email \in user_emails(d)
         \/ LET r == name_ratio(member_name(m), d.name.fullName)
            IN  10 * r[1] > 9 * r[2]

Excluded(d) == \E e \in EmailsOf(d) : e \in EXTRA_EXCLUDED

\* C14: the missing pass and the extra pass of a run decide by the same
\* relation between a roster member and a directory record: a member is
\* listed as missing iff it is related to no record, and a record that is not
\* excluded is listed as extra iff no member is related to it.  So a member
\* that is not missing is related to a record that is excluded or not extra,
\* and a record that is neither excluded nor extra is related to a member
\* that is not missing.
C14_SameRelationBothPasses ==
    ExtraPrinted =>
        /\ \A m \in RosterMembers :
            m \in Range(missing) <=> ~\E d \in DirectoryRecords : Related(m, d)
        /\ \A d \in DirectoryRecords :
            ~Excluded(d) =>
                (d \in Range(extra) <=> ~\E m \in RosterMembers : Related(m, d))
        /\ \A d \in DirectoryRecords : Excluded(d) => d \notin Range(extra)
        /\ \A m \in RosterMembers :
            m \notin Range(missing) =>
                \E d \in DirectoryRecords :
                    Related(m, d) /\ (Excluded(d) \/ d \notin Range(extra))
        /\ \A d \in DirectoryRecords :
            (~Excluded(d) /\ d \notin Range(extra)) =>
                \E m \in RosterMembers : Related(m, d) /\ m \notin Range(missing)

\* The rewrite is the member's in both passes: d@googlemail.com is missing
\* and d@gmail.com is extra, c@gmail.com and c@googlemail.com are a pair
C14_Witness ==
    /\ MembersSync /\ ExtraPrinted
    /\ myaegee_members = <<JonSmith, JohnSmyth>>
    /\ gsuite_users = <<Member_c_googlemail, Member_d_gmail>>
    /\ missing = <<JohnSmyth>>
    /\ extra = <<Member_d_gmail>>

\* The summary lines of the extra report
ExtraSummaries ==
    {stdout[k] : k \in {j \in 1..Len(stdout) :
        stdout[j].text \in {"Extra users in group", "Extra users in G-Suite"}}}

\* C15: the X/Y summary of an extra report counts over every directory
\* record fetched, the excluded ones included: Y is their number, X is Y
\* minus the number of records listed as extra, and X is at least the number
\* of records the exclusion list skipped.
C15_ExtraSummaryCountsExcluded ==
    ExtraPrinted =>
        /\ extra # <<>> <=> ExtraSummaries # {}
        /\ \A l \in ExtraSummaries :
            /\ l.total = Len(gsuite_users)
            /\ l.matched = Len(gsuite_users) - Len(extra)
            /\ l.matched >= Cardinality({d \in DirectoryRecords : Excluded(d)})

\* An empty roster: "IT Team" is excluded and counted as matched, "Carla
\* Meyer" is extra
C15_Witness ==
    /\ ActivesSync /\ ExtraPrinted
    /\ myaegee_members = <<>>
    /\ gsuite_users = <<User_ITTeam, User_CarlaMeyer>>
    /\ extra = <<User_CarlaMeyer>>
    /\ ExtraSummaries = {[text |-> "Extra users in G-Suite", matched |-> 1, total |-> 2]}

\* gsuite_auth has returned in this run
AuthReturned ==
    /\ \E k \in 1..Len(calls) : calls[k] = "gsuite_auth"
    /\ "gsuite_auth" \notin api_failed

\* C16: from the moment gsuite_auth returns, token.pickle exists and holds
\* the credential returned, on each of the three paths and in a run that
\* follows another; at the end of a run the file holds the credential that
\* run used.
C16_CacheHoldsReturnedCredential ==
    AuthReturned =>
        /\ auth_path \in {"cached", "refresh", "login"}
        /\ token_pickle.exists
        /\ token_pickle.creds = gsuite_creds
        /\ gsuite_creds.token # None /\ ~gsuite_creds.expired

\* The second of two runs found the token expired, refreshed it and ended
C16_Witness ==
    /\ sources.pinned
    /\ pc = "exit" /\ error = "none"
    /\ AuthReturned
    /\ auth_path = "refresh"
    /\ token_pickle.creds.token = Token_refreshed

\* The members each evolution of the missing-from-group check reports for
\* the roster and the group of this run
MissingOf_sync_members_group ==
    Range(sync_members_group_missing_list(myaegee_members, gsuite_users))
MissingOf_root_members_sync ==
    Range(root_members_sync_missing_list(myaegee_members, gsuite_users))
MissingOf_members_sync ==
    Range(members_sync_missing_list(myaegee_members, gsuite_users))

\* C17: for the same roster and group, sync_members_group.py and
\* members_sync of the root myaegee_sync.py report the same missing members,
\* and members_sync of gsuitedirsync_aegee reports a subset of them; a member
\* and a group record that the case-sensitive checks match are matched by the
\* lower-cased check as well.
C17_MissingChecksRefine ==
    (MissingPrinted /\ args.func \in {"sync_members_group", "root_members_sync",
                                      "members_sync"}) =>
        /\ Range(missing) = IF args.func = "sync_members_group"
                            THEN MissingOf_sync_members_group
                            ELSE IF args.func = "root_members_sync"
                            THEN MissingOf_root_members_sync
                            ELSE MissingOf_members_sync
        /\ MissingOf_sync_members_group = MissingOf_root_members_sync
        /\ MissingOf_members_sync \subseteq MissingOf_root_members_sync
        /\ \A m \in RosterMembers, d \in DirectoryRecords :
            /\ sync_members_group_is_in_group(m, <<d>>) <=> root_is_in_group(m, <<d>>)
            /\ root_is_in_group(m, <<d>>) => is_in_group(m, <<d>>)
            /\ m.user.email = d.email => Lower(m.user.email) = Lower(d.email)
            /\ GmailToGooglemail(m.user.email) = d.email
               => GmailToGooglemail(Lower(m.user.email)) = Lower(d.email)

\* The root script has reported Ann Lee <a@x.de> missing beside A@X.de, which
\* the lower-cased check matches; c@gmail.com is matched by both
C17_Witness ==
    /\ args.func = "root_members_sync" /\ MissingPrinted
    /\ myaegee_members = <<AnnLee, JonSmith>>
    /\ gsuite_users = <<Member_A, Member_c_googlemail>>
    /\ missing = <<AnnLee>>
    /\ MissingOf_members_sync = {}
=============================================================================
